---- MODULE Spec2Model ----
(***************************************************************************)
(* Task orchestration and agent selection engine                            *)
(* (src/src/agents/orchestrator.ts, src/src/agents/knowledge/seeker.ts).    *)
(*                                                                          *)
(* The orchestrator runs on one JavaScript event loop: the code between two *)
(* awaits of an async function is one atomic step, and every await is a     *)
(* point where the other pending continuations may run.  Each action below  *)
(* is one such step of submitTask, of the setInterval callback              *)
(* (startProcessingLoop / processTask) or of triggerCuriousExploration.     *)
(***************************************************************************)
EXTENDS Integers, Sequences, FiniteSets, TLC

\* ------------------------------------------------------------------ bounds
\* Tasks submitted over a run.
MaxTasks == 2
\* Tasks submitted over a run of the saturation scenario (one more than the
\* pool has agents).
LoadTasks == 5
\* setInterval callbacks that may be in flight (not yet returned) at once.
MaxInFlight == 2
\* setInterval callbacks in flight at once in the saturation scenario.
LoadInFlight == 5
\* submitTask calls that may be in flight at once.
MaxSubmitting == 1
\* Unawaited triggerCuriousExploration promises pending per agent.
MaxExploring == 1
\* Queries in one seekKnowledge batch.
MaxQueries == 2
\* Records the web search returns for a query (searchWeb keeps three).
MaxWebResults == 4
\* Consecutive getAgentStatus calls.
MaxStatusCalls == 2
\* Items in the baseKnowledge expandKnowledge is called with.
MaxItems == 2
\* Related topics of one item.
MaxRelated == 2

\* ------------------------------------------------------------- characters
\* Strings are sequences of one-character strings, so that toLowerCase,
\* split and includes are computed and not assumed.
Str_research == <<"r","e","s","e","a","r","c","h">>
Str_analysis == <<"a","n","a","l","y","s","i","s">>
Str_data_mining == <<"d","a","t","a","-","m","i","n","i","n","g">>
Str_creative_writing == <<"c","r","e","a","t","i","v","e","-","w","r","i","t","i","n","g">>
Str_brainstorming == <<"b","r","a","i","n","s","t","o","r","m","i","n","g">>
Str_ideation == <<"i","d","e","a","t","i","o","n">>
Str_knowledge_synthesis == <<"k","n","o","w","l","e","d","g","e","-","s","y","n","t","h","e","s","i","s">>
Str_education == <<"e","d","u","c","a","t","i","o","n">>
Str_explanation == <<"e","x","p","l","a","n","a","t","i","o","n">>
Str_real_time_processing == <<"r","e","a","l","-","t","i","m","e","-","p","r","o","c","e","s","s","i","n","g">>
Str_quick_responses == <<"q","u","i","c","k","-","r","e","s","p","o","n","s","e","s">>
Str_multitasking == <<"m","u","l","t","i","t","a","s","k","i","n","g">>

\* String.prototype.toLowerCase on the letters the prompts below use.
LowerChar(c) ==
  CASE c = "E" -> "e"
    [] c = "Q" -> "q"
    [] c = "R" -> "r"
    [] OTHER -> c

toLowerCase(s) == [i \in 1..Len(s) |-> LowerChar(s[i])]

\* s.split(" "): the pieces between single spaces, empty pieces included
\* ("a  b" gives "a", "", "b"; "" gives one empty piece).
RECURSIVE SplitFrom(_, _, _)
SplitFrom(s, i, cur) ==
  IF i > Len(s) THEN <<cur>>
  ELSE IF s[i] = " " THEN <<cur>> \o SplitFrom(s, i + 1, <<>>)
  ELSE SplitFrom(s, i + 1, Append(cur, s[i]))

split(s) == SplitFrom(s, 1, <<>>)

\* hay.includes(needle): needle occurs in hay as a contiguous substring; the
\* empty needle occurs in every string.
includes(hay, needle) ==
  \E i \in 0..(Len(hay) - Len(needle)) :
    \A j \in 1..Len(needle) : hay[i + j] = needle[j]

\* ------------------------------------------------------------- agent pool
\* agentConfigs, in Map insertion order.
AgentOrder == <<"agent-aria", "agent-zephyr", "agent-sage", "agent-nova">>

AgentIds == {AgentOrder[i] : i \in 1..Len(AgentOrder)}

specialization(a) ==
  CASE a = "agent-aria" -> <<Str_research, Str_analysis, Str_data_mining>>
    [] a = "agent-zephyr" -> <<Str_creative_writing, Str_brainstorming, Str_ideation>>
    [] a = "agent-sage" -> <<Str_knowledge_synthesis, Str_education, Str_explanation>>
    [] a = "agent-nova" -> <<Str_real_time_processing, Str_quick_responses, Str_multitasking>>

\* curiosityLevel and learningRate in hundredths.
curiosityLevel(a) ==
  CASE a = "agent-aria" -> 90
    [] a = "agent-zephyr" -> 95
    [] a = "agent-sage" -> 80
    [] a = "agent-nova" -> 85

learningRate(a) ==
  CASE a = "agent-aria" -> 80
    [] a = "agent-zephyr" -> 70
    [] a = "agent-sage" -> 90
    [] a = "agent-nova" -> 85

\* The sign of the IEEE-754 rounding residue of
\* curiosityLevel * 0.3 + learningRate * 0.2 against the exact value:
\* 0.43000000000000005, 0.42499999999999993, 0.42000000000000004,
\* 0.42500000000000004.  Adding 0.5 per match keeps the order of the doubles.
FloatResidue(a) ==
  CASE a = "agent-aria" -> 1
    [] a = "agent-zephyr" -> -1
    [] a = "agent-sage" -> 1
    [] a = "agent-nova" -> 1

\* Agent.currentTask is optional: 0 stands for undefined (task ids start at 1).
NoTask == 0

\* selectAgent's null.
NoAgent == "none"

\* initializeAgents: every agent idle, without currentTask, with an empty
\* knowledgeBase (the keys of the Map are kept; the values are not read by
\* the orchestrator).
initializeAgents ==
  [a \in AgentIds |->
     [id |-> a, specialization |-> specialization(a),
      curiosityLevel |-> curiosityLevel(a), learningRate |-> learningRate(a),
      status |-> "idle", currentTask |-> NoTask, knowledgeBase |-> {}]]

\* ---------------------------------------------------------------- scoring
\* The number of the agent's specialization tags for which some keyword of
\* prompt.toLowerCase().split(" ") is a substring of the tag.
specializationMatches(a, prompt) ==
  LET taskKeywords == split(toLowerCase(prompt))
      tags == specialization(a)
  IN Cardinality({i \in 1..Len(tags) :
       \E k \in 1..Len(taskKeywords) : includes(tags[i], taskKeywords[k])})

\* calculateAgentScore in millionths: curiosityLevel * 0.3 + learningRate * 0.2
\* + 0.5 per matching tag, as the doubles order.
calculateAgentScore(a, prompt) ==
  100 * (curiosityLevel(a) * 30 + learningRate(a) * 20
         + 5000 * specializationMatches(a, prompt)) + FloatResidue(a)

\* A selectAgent without the filter on status: the best-scoring agent of the
\* whole pool.
selectAgentAnyStatus(pool, prompt) ==
  CHOOSE a \in AgentIds :
    \A b \in AgentIds : calculateAgentScore(b, prompt) <= calculateAgentScore(a, prompt)

\* selectAgent: the idle agents in pool order, sorted by descending score with
\* a stable sort; the first one, or null when no agent is idle.
selectAgent(pool, prompt) ==
  LET availableAgents == SelectSeq(AgentOrder, LAMBDA a : pool[a].status = "idle")
      score(a) == calculateAgentScore(a, prompt)
      best == CHOOSE i \in 1..Len(availableAgents) :
                /\ \A j \in 1..Len(availableAgents) :
                     score(availableAgents[j]) <= score(availableAgents[i])
                /\ \A j \in 1..(i - 1) :
                     score(availableAgents[j]) < score(availableAgents[i])
  IN IF Len(availableAgents) = 0 THEN NoAgent ELSE availableAgents[best]

\* ----------------------------------------------------------------- inputs
Str_Research == <<"R","e","s","e","a","r","c","h">>
Str_quick_ideation == <<"q","u","i","c","k"," ","i","d","e","a","t","i","o","n">>

\* The submissions made: a user and a prompt.
Requests ==
  { [userId |-> "u1", prompt |-> Str_Research],
    [userId |-> "u2", prompt |-> Str_quick_ideation] }

\* The topics (KnowledgeItem.topic || query) retrieval may come back with.
Topics == {"quantum"}

\* ------------------------------------------------------------------ state
VARIABLES
  agents,        \* this.agents: id -> [status, currentTask, knowledgeBase]
  exploring,     \* pending triggerCuriousExploration promises, per agent
  tasks,         \* the AgentTask objects built by submitTask, by id
  queue,         \* the TaskQueue: ids of the tasks waiting, oldest first
  db,            \* the tasks table: id -> [status, result]
  attempts,      \* the setInterval callbacks in flight
  events,        \* what io.to(room).emit(...) has published, in order
  statusLog,     \* per task, the status values written to the tasks table
  taskLog,       \* per task, what the processing loop did with it and the
                 \* value its attempt's catch block caught (thrown)
  tickFailed,    \* whether the loop callback's catch has logged an error
  call           \* the function applied on its own, its inputs and its result

vars ==
  <<agents, exploring, tasks, queue, db, attempts, events, statusLog, taskLog,
    tickFailed, call>>

TaskIds == 1..Len(tasks)

Slots == 1..MaxInFlight

LoadSlots == 1..LoadInFlight

AllSlots == Slots \cup LoadSlots

FreeSlot == [pc |-> "free", task |-> NoTask, agent |-> NoAgent]

\* No function is being applied on its own.
NoCall == [fn |-> "none"]

Init ==
  /\ agents = initializeAgents
  /\ exploring = [a \in AgentIds |-> [withItems |-> 0, empty |-> 0]]
  /\ tasks = <<>>
  /\ queue = <<>>
  /\ db = <<>>
  /\ attempts = [s \in AllSlots |-> FreeSlot]
  /\ events = <<>>
  /\ statusLog = <<>>
  /\ taskLog = <<>>
  /\ tickFailed = FALSE
  /\ call = NoCall

\* ------------------------------------------------------------- submitTask
Submitting == {t \in TaskIds : tasks[t].submit \in {"addTask", "insert"}}

\* submitTask up to its first await: the task object is built with status
\* pending and taskQueue.addTask(task) is called.
SubmitTask(userId, prompt, limit) ==
  /\ Len(tasks) < limit
  /\ Cardinality(Submitting) < MaxSubmitting
  /\ tasks' = Append(tasks, [userId |-> userId, prompt |-> prompt,
                              status |-> "pending", submit |-> "addTask"])
  /\ db' = Append(db, [status |-> "absent", result |-> FALSE])
  /\ statusLog' = Append(statusLog, <<>>)
  /\ taskLog' = Append(taskLog, [delivered |-> 0, agent |-> NoAgent,
                                  outcome |-> "none", afterTickFailed |-> FALSE,
                                  thrown |-> {}])
  /\ UNCHANGED <<tickFailed, call, agents, exploring, queue, attempts, events>>

\* TaskQueue.addTask: the task becomes visible to getNextTask; submitTask goes
\* on to issue the INSERT.
addTask(q, t) == Append(q, t)

AddTask(t) ==
  /\ tasks[t].submit = "addTask"
  /\ queue' = addTask(queue, t)
  /\ tasks' = [tasks EXCEPT ![t].submit = "insert"]
  /\ UNCHANGED <<tickFailed, call, agents, exploring, db, attempts, events, statusLog, taskLog>>

\* taskQueue.addTask rejects: submitTask throws before the INSERT.
AddTaskFail(t) ==
  /\ tasks[t].submit = "addTask"
  /\ tasks' = [tasks EXCEPT ![t].submit = "failed"]
  /\ UNCHANGED <<tickFailed, call, agents, exploring, queue, db, attempts, events, statusLog, taskLog>>

\* The log of status values written, after a step took the table to `after`.
Logged(log, before, after) ==
  [t \in DOMAIN log |->
     IF after[t] # before[t] THEN Append(log[t], after[t].status) ELSE log[t]]

\* An INSERT that writes the status the loop is about to give the task.
InsertRowProcessing(table, t, status) ==
  [table EXCEPT ![t] = [status |-> "processing", result |-> FALSE]]

\* INSERT INTO tasks (...) VALUES (..., task.status, ...): a new row, status
\* pending, no result; submitTask returns task.id.
InsertRow(table, t, status) ==
  [table EXCEPT ![t] = [status |-> status, result |-> FALSE]]

InsertTask(t) ==
  /\ tasks[t].submit = "insert"
  /\ db[t].status = "absent"
  /\ db' = InsertRow(db, t, tasks[t].status)
  /\ statusLog' = Logged(statusLog, db, db')
  /\ tasks' = [tasks EXCEPT ![t].submit = "returned"]
  /\ UNCHANGED <<tickFailed, call, agents, exploring, queue, attempts, events, taskLog>>

\* The INSERT rejects (store unreachable): submitTask throws; the task stays
\* where addTask put it.
InsertFail(t) ==
  /\ tasks[t].submit = "insert"
  /\ tasks' = [tasks EXCEPT ![t].submit = "failed"]
  /\ UNCHANGED <<tickFailed, call, agents, exploring, queue, db, attempts, events, statusLog, taskLog>>

\* ------------------------------------------------------- processing loop
\* An emit without a room: io.emit(...) reaches every connected socket.
RoomBroadcast(userId) == <<"broadcast">>

\* The room of a user's notification channel: `user-${task.userId}`.
Room(userId) == <<"user-", userId>>

\* io.to(`user-${task.userId}`).emit("task-progress", {taskId, status, result, agent}).
EmitProgress(t, a) ==
  [room |-> Room(tasks[t].userId), name |-> "task-progress", taskId |-> t,
   status |-> "completed", agent |-> a, error |-> ""]

\* The Error processTask throws when selectAgent returned null.
NoSuitableAgent == [isError |-> TRUE, message |-> "No suitable agent available"]

\* The Error an awaited call of processTask rejects with.
Rejection == [isError |-> TRUE, message |-> "rejected"]

\* A value that is not an Error (a string, with its text) which a callee
\* rejects with.
NonErrorRejection == [isError |-> FALSE, message |-> "boom"]

\* A catch block that reports every error as "Unknown error".
ErrorMessageUnknown(error) == "Unknown error"

\* error instanceof Error ? error.message : "Unknown error".
ErrorMessage(error) ==
  IF error.isError THEN error.message ELSE "Unknown error"

\* io.to(`user-${task.userId}`).emit("task-error", {taskId, error}).
EmitError(t, error) ==
  [room |-> Room(tasks[t].userId), name |-> "task-error", taskId |-> t,
   status |-> "error", agent |-> NoAgent, error |-> ErrorMessage(error)]

\* The process has not been ended by a promise rejected without a handler.
ProcessAlive == \A s \in AllSlots : attempts[s].pc # "unhandledRejection"

\* setInterval fires: the callback starts and calls taskQueue.getNextTask().
\* The lowest free slot is taken, the callbacks being interchangeable.
Tick(s) ==
  /\ ProcessAlive
  /\ attempts[s].pc = "free"
  /\ \A r \in AllSlots : r < s => attempts[r].pc # "free"
  /\ attempts' = [attempts EXCEPT ![s].pc = "getNextTask"]
  /\ UNCHANGED <<tickFailed, call, agents, exploring, tasks, queue, db, events, statusLog, taskLog>>

\* TaskQueue.getNextTask on a non-empty queue: the oldest task, removed from
\* the queue.
getNextTask(q) == [task |-> Head(q), rest |-> Tail(q)]

\* getNextTask resolves with a task and the callback runs on into processTask
\* up to its first await: selectAgent has read the pool and chosen.
GetNextTask(s) ==
  /\ attempts[s].pc = "getNextTask"
  /\ queue # <<>>
  /\ LET got == getNextTask(queue)
         t == got.task
     IN /\ queue' = got.rest
        /\ attempts' = [attempts EXCEPT ![s] =
             [pc |-> "selectAgent", task |-> t,
              agent |-> selectAgent(agents, tasks[t].prompt)]]
        /\ taskLog' = [taskLog EXCEPT ![t].delivered = @ + 1,
                                       ![t].afterTickFailed = tickFailed]
  /\ UNCHANGED <<tickFailed, call, agents, exploring, tasks, db, events, statusLog>>

\* getNextTask resolves with no task: the callback returns.
GetNextTaskEmpty(s) ==
  /\ attempts[s].pc = "getNextTask"
  /\ queue = <<>>
  /\ attempts' = [attempts EXCEPT ![s] = FreeSlot]
  /\ UNCHANGED <<tickFailed, call, agents, exploring, tasks, queue, db, events, statusLog, taskLog>>

\* A callback without try/catch: its promise rejects and nothing handles it.
LoopNoCatch(slot) == [slot EXCEPT !.pc = "unhandledRejection"]

\* The callback's catch: the error is logged and the callback returns.
LoopCatch(slot) == FreeSlot

\* getNextTask rejects: the callback's catch logs it and the callback returns.
GetNextTaskFail(s) ==
  /\ attempts[s].pc = "getNextTask"
  /\ attempts' = [attempts EXCEPT ![s] = LoopCatch(attempts[s])]
  /\ tickFailed' = TRUE
  /\ UNCHANGED <<call, agents, exploring, tasks, queue, db, events, statusLog, taskLog>>

\* A catch block that puts the task's row back to pending for a retry.
CatchStoreRetry(table, t) ==
  IF table[t].status = "absent" THEN table
  ELSE [table EXCEPT ![t].status = "pending"]

\* What processTask's catch block writes to the tasks table: nothing.
CatchStore(table, t) == table

\* A catch block that puts the task back on the queue for another attempt.
CatchQueueRetry(q, t) == Append(q, t)

\* What processTask's catch block does to the queue: nothing.
CatchQueue(q, t) == q

\* processTask's catch block: the error is logged and task-error is emitted;
\* the agent, the queue and the task's row are left as they are; processTask
\* returns.
CatchBlock(s, error) ==
  /\ events' = Append(events, EmitError(attempts[s].task, error))
  /\ db' = CatchStore(db, attempts[s].task)
  /\ queue' = CatchQueue(queue, attempts[s].task)
  /\ statusLog' = Logged(statusLog, db, db')
  /\ attempts' = [attempts EXCEPT ![s] = FreeSlot]

\* selectAgent returned null: "No suitable agent available" is thrown into
\* the catch block.
NoAgentAvailable(s) ==
  /\ attempts[s].pc = "selectAgent"
  /\ attempts[s].agent = NoAgent
  /\ CatchBlock(s, NoSuitableAgent)
  /\ taskLog' = [taskLog EXCEPT ![attempts[s].task].outcome = "noagent",
                                 ![attempts[s].task].thrown = {NoSuitableAgent}]
  /\ UNCHANGED <<tickFailed, call, agents, exploring, tasks>>

\* currentTask = task.priority, which submitTask sets to 1 for every task.
AssignedTaskPriority(t) == 1

\* The value written to selectedAgent.currentTask.
AssignedTask(t) == t

\* After `await this.selectAgent(task)`: status = "busy", currentTask =
\* task.id, and contextBuilder.buildContext is called.
MarkBusy(s) ==
  /\ attempts[s].pc = "selectAgent"
  /\ attempts[s].agent # NoAgent
  /\ LET a == attempts[s].agent
         t == attempts[s].task
     IN /\ agents' = [agents EXCEPT ![a].status = "busy",
                                     ![a].currentTask = AssignedTask(t)]
        /\ taskLog' = [taskLog EXCEPT ![t].agent = a]
  /\ attempts' = [attempts EXCEPT ![s].pc = "buildContext"]
  /\ UNCHANGED <<tickFailed, call, exploring, tasks, queue, db, events, statusLog>>

\* buildContext resolves; generateKnowledgeQueries calls extractConcepts.
BuildContext(s) ==
  /\ attempts[s].pc = "buildContext"
  /\ attempts' = [attempts EXCEPT ![s].pc = "generateKnowledgeQueries"]
  /\ UNCHANGED <<tickFailed, call, agents, exploring, tasks, queue, db, events, statusLog, taskLog>>

\* generateKnowledgeQueries resolves; seekKnowledge is called.
GenerateKnowledgeQueries(s) ==
  /\ attempts[s].pc = "generateKnowledgeQueries"
  /\ attempts' = [attempts EXCEPT ![s].pc = "seekKnowledge"]
  /\ UNCHANGED <<tickFailed, call, agents, exploring, tasks, queue, db, events, statusLog, taskLog>>

PendingExplorations(a) == exploring[a].withItems + exploring[a].empty

\* triggerCuriousExploration up to its await: status = "learning" and
\* seekKnowledge is called on one follow-up query per recent item; the
\* promise is left pending.
StartExploration(pool, a) == [pool EXCEPT ![a].status = "learning"]

\* An updateAgentKnowledge that also makes the agent more curious.
MergeKnowledgeMoreCurious(pool, a, keys) ==
  [pool EXCEPT ![a].knowledgeBase = @ \cup keys, ![a].curiosityLevel = 100]

\* updateAgentKnowledge's loop: every item is stored under topic || query.
MergeKnowledge(pool, a, keys) ==
  [pool EXCEPT ![a].knowledgeBase = @ \cup keys]

\* seekKnowledge resolves with the items gathered; updateAgentKnowledge
\* merges them and, when Math.random() < curiosityLevel, starts an exploration
\* it does not await; taskProcessor.processTask is called.
SeekKnowledge(s, keys, curious) ==
  /\ attempts[s].pc = "seekKnowledge"
  /\ LET a == attempts[s].agent
         merged == MergeKnowledge(agents, a, keys)
     IN IF curious
        THEN /\ PendingExplorations(a) < MaxExploring
             /\ agents' = StartExploration(merged, a)
             /\ exploring' = IF keys = {}
                              THEN [exploring EXCEPT ![a].empty = @ + 1]
                              ELSE [exploring EXCEPT ![a].withItems = @ + 1]
        ELSE /\ agents' = merged
             /\ UNCHANGED exploring
  /\ attempts' = [attempts EXCEPT ![s].pc = "taskProcessor"]
  /\ UNCHANGED <<tickFailed, call, tasks, queue, db, events, statusLog, taskLog>>

\* taskProcessor.processTask resolves; storeTaskResult issues its UPDATE.
TaskProcessor(s) ==
  /\ attempts[s].pc = "taskProcessor"
  /\ attempts' = [attempts EXCEPT ![s].pc = "storeTaskResult"]
  /\ UNCHANGED <<tickFailed, call, agents, exploring, tasks, queue, db, events, statusLog, taskLog>>

\* UPDATE tasks SET result = $1, status = 'completed' WHERE id = $3: the row
\* of that id, when there is one.
UpdateRow(table, t) ==
  IF table[t].status = "absent" THEN table
  ELSE [table EXCEPT ![t] = [status |-> "completed", result |-> TRUE]]

\* storeTaskResult resolves; updateUserContext is called.
StoreTaskResult(s) ==
  /\ attempts[s].pc = "storeTaskResult"
  /\ LET t == attempts[s].task
     IN /\ db' = UpdateRow(db, t)
        /\ statusLog' = Logged(statusLog, db, db')
  /\ attempts' = [attempts EXCEPT ![s].pc = "updateUserContext"]
  /\ UNCHANGED <<tickFailed, call, agents, exploring, tasks, queue, events, taskLog>>

\* A statement after the emit throws, so that the catch block runs as well.
CompletionEventsThenCatch(t, a) == <<EmitProgress(t, a), EmitError(t, Rejection)>>

\* What the success path publishes: one task-progress event.
CompletionEvents(t, a) == <<EmitProgress(t, a)>>

\* A reset that goes over the whole pool.
ReleaseEveryAgent(pool, a) ==
  [b \in DOMAIN pool |-> [pool[b] EXCEPT !.status = "idle", !.currentTask = NoTask]]

\* "Reset agent status": status = "idle", currentTask = undefined.
ReleaseAgent(pool, a) ==
  [pool EXCEPT ![a].status = "idle", ![a].currentTask = NoTask]

\* updateUserContext resolves: task-progress is emitted and the agent is
\* reset; processTask and the callback return.
UpdateUserContext(s) ==
  /\ attempts[s].pc = "updateUserContext"
  /\ LET a == attempts[s].agent
         t == attempts[s].task
     IN /\ events' = events \o CompletionEvents(t, a)
        /\ agents' = ReleaseAgent(agents, a)
        /\ taskLog' = [taskLog EXCEPT ![t].outcome = "completed"]
  /\ attempts' = [attempts EXCEPT ![s] = FreeSlot]
  /\ UNCHANGED <<tickFailed, call, exploring, tasks, queue, db, statusLog>>

\* The awaited calls of processTask that can reject once an agent is selected:
\* buildContext and updateUserContext (the context builder; interest
\* extraction), generateKnowledgeQueries (concept extraction; concepts that
\* are not iterable), taskProcessor.processTask (text generation),
\* storeTaskResult (store).  seekKnowledge catches per query.
CanReject ==
  {"buildContext", "generateKnowledgeQueries", "taskProcessor",
   "storeTaskResult", "updateUserContext"}

\* Those of them that call into ContextBuilder (buildContext, and
\* contextBuilder.updateUserContext inside updateUserContext) and
\* TaskProcessor, whose promises may reject with any value; the others
\* reject with the Errors of the store and of the iteration.
RejectsWithAnyValue == {"buildContext", "taskProcessor", "updateUserContext"}

\* What an awaited call may reject with.
Rejections == {Rejection, NonErrorRejection}

\* One of them rejects with `error`: the catch block runs.
StepFails(s, error) ==
  /\ attempts[s].pc \in CanReject
  /\ error.isError \/ attempts[s].pc \in RejectsWithAnyValue
  /\ CatchBlock(s, error)
  /\ taskLog' = [taskLog EXCEPT ![attempts[s].task].outcome = "failed",
                                 ![attempts[s].task].thrown = {error}]
  /\ UNCHANGED <<tickFailed, call, agents, exploring, tasks>>

\* ------------------------------------------------- curious exploration
\* A pending triggerCuriousExploration resumes: its seekKnowledge resolved
\* with `keys` (nothing when it had no follow-up query); updateAgentKnowledge
\* merges them, starting a further unawaited exploration when Math.random()
\* < curiosityLevel; then status = "idle".
ExplorationDone(a, hadItems, keys, curious) ==
  /\ IF hadItems THEN exploring[a].withItems > 0
                 ELSE exploring[a].empty > 0 /\ keys = {}
  /\ LET merged == MergeKnowledge(agents, a, keys)
         started == IF curious THEN StartExploration(merged, a) ELSE merged
         left == IF hadItems THEN [exploring EXCEPT ![a].withItems = @ - 1]
                             ELSE [exploring EXCEPT ![a].empty = @ - 1]
     IN /\ agents' = [started EXCEPT ![a].status = "idle"]
        /\ exploring' = IF ~curious THEN left
                         ELSE IF keys = {}
                              THEN [left EXCEPT ![a].empty = @ + 1]
                              ELSE [left EXCEPT ![a].withItems = @ + 1]
  /\ UNCHANGED <<tickFailed, call, tasks, queue, db, attempts, events, statusLog, taskLog>>

\* ---------------------------------------------------------- specification
Next ==
  \/ \E r \in Requests : SubmitTask(r.userId, r.prompt, MaxTasks)
  \/ \E t \in TaskIds : AddTask(t)
  \/ \E t \in TaskIds : AddTaskFail(t)
  \/ \E t \in TaskIds : InsertTask(t)
  \/ \E t \in TaskIds : InsertFail(t)
  \/ \E s \in Slots : Tick(s)
  \/ \E s \in Slots : GetNextTask(s)
  \/ \E s \in Slots : GetNextTaskEmpty(s)
  \/ \E s \in Slots : GetNextTaskFail(s)
  \/ \E s \in Slots : MarkBusy(s)
  \/ \E s \in Slots : BuildContext(s)
  \/ \E s \in Slots : GenerateKnowledgeQueries(s)
  \/ \E s \in Slots, keys \in SUBSET Topics, curious \in BOOLEAN :
       SeekKnowledge(s, keys, curious)
  \/ \E s \in Slots : TaskProcessor(s)
  \/ \E s \in Slots : StoreTaskResult(s)
  \/ \E s \in Slots : UpdateUserContext(s)
  \/ \E s \in Slots, error \in Rejections : StepFails(s, error)
  \/ \E a \in AgentIds, hadItems \in BOOLEAN, keys \in SUBSET Topics, curious \in BOOLEAN :
       ExplorationDone(a, hadItems, keys, curious)

\* With MaxTasks tasks, fewer than the pool has agents, selectAgent never
\* returns null: its throw is a step of the saturation scenario below.
Spec == Init /\ [][Next]_vars

\* The saturation scenario: LoadTasks submissions by one user, none of whose
\* calls fails, and up to LoadInFlight callbacks in flight, each of which gets
\* as far as its buildContext call and waits there (no external call of
\* processTask has a timeout).
NextLoad ==
  \/ \E r \in {q \in Requests : q.userId = "u1"} : SubmitTask(r.userId, r.prompt, LoadTasks)
  \/ \E t \in TaskIds : AddTask(t)
  \/ \E t \in TaskIds : InsertTask(t)
  \/ \E s \in LoadSlots : Tick(s)
  \/ \E s \in LoadSlots : GetNextTask(s)
  \/ \E s \in LoadSlots : GetNextTaskEmpty(s)
  \/ \E s \in LoadSlots : NoAgentAvailable(s)
  \/ \E s \in LoadSlots : MarkBusy(s)

SpecLoad == Init /\ [][NextLoad]_vars

\* ------------------------------------------------ selectAgent on its own
Str_hello == <<"h","e","l","l","o">>
Str_quick__ideation == <<"q","u","i","c","k"," "," ","i","d","e","a","t","i","o","n">>
Str_ideation_ == <<"i","d","e","a","t","i","o","n"," ">>
Str__Research == <<" ","R","e","s","e","a","r","c","h">>

\* The prompts selectAgent is applied to: one matching a tag of Aria, one
\* matching a tag of Zephyr and one of Nova, one matching nothing, the empty
\* prompt, and prompts with two spaces in a row, a trailing and a leading
\* space.
ScorePrompts ==
  {Str_Research, Str_quick_ideation, Str_hello, <<>>,
   Str_quick__ideation, Str_ideation_, Str__Research}

\* A pool whose agents have the given statuses; an agent that is not idle
\* holds a task.  Every combination arises in a run with one task per agent:
\* busy from processTask, learning from triggerCuriousExploration.
PoolOf(st) ==
  [a \in AgentIds |->
     [initializeAgents[a] EXCEPT
        !.status = st[a],
        !.currentTask = IF st[a] = "idle" THEN NoTask ELSE 1]]

InitSelect ==
  /\ agents \in {PoolOf(st) : st \in [AgentIds -> {"idle", "busy", "learning"}]}
  /\ call \in {[fn |-> "selectAgent", prompt |-> p, done |-> FALSE,
                 scores |-> <<>>, result |-> NoAgent] : p \in ScorePrompts}
  /\ exploring = [a \in AgentIds |-> [withItems |-> 0, empty |-> 0]]
  /\ tasks = <<>>
  /\ queue = <<>>
  /\ db = <<>>
  /\ attempts = [s \in AllSlots |-> FreeSlot]
  /\ events = <<>>
  /\ statusLog = <<>>
  /\ taskLog = <<>>
  /\ tickFailed = FALSE

\* selectAgent(task) is called: the scores of the idle agents, in pool
\* order, and the agent returned.
ApplySelectAgent ==
  /\ call.fn = "selectAgent"
  /\ ~call.done
  /\ LET availableAgents == SelectSeq(AgentOrder, LAMBDA a : agents[a].status = "idle")
     IN call' = [call EXCEPT
          !.done = TRUE,
          !.scores = [i \in 1..Len(availableAgents) |->
                        [agent |-> availableAgents[i],
                         score |-> calculateAgentScore(availableAgents[i], call.prompt)]],
          !.result = selectAgent(agents, call.prompt)]
  /\ UNCHANGED <<agents, exploring, tasks, queue, db, attempts, events, statusLog,
                 taskLog, tickFailed>>

NextSelect == ApplySelectAgent

SpecSelect == InitSelect /\ [][NextSelect]_vars

\* -------------------------------------------------------- KnowledgeSeeker
\* A source record, of which synthesizeKnowledge reads whether `content` is
\* truthy (a non-empty string).
Record(source, content) == [source |-> source, content |-> content]

\* generateAIInsights' null.
Null == Record("null", FALSE)

\* What the external calls made for one query come back with:
\*   web   - performWebSearch, the stand-in for the search API: it throws, or
\*           returns `count` records with content (the stand-in returns one);
\*   wiki  - axios.get of the page summary: it rejects ("error"), or answers
\*           without an extract ("noextract"), or with one ("found");
\*   ai    - aiProvider.generateInsights: it rejects ("error"), or resolves
\*           with "" ("empty"), or with text ("text");
\*   synth - aiProvider.synthesizeInformation: it rejects ("error") or
\*           resolves ("ok").
WebOutcomes ==
  {[threw |-> TRUE, count |-> 0]} \cup {[threw |-> FALSE, count |-> k] : k \in 0..MaxWebResults}

QueryOutcomes ==
  [web : WebOutcomes, wiki : {"error", "noextract", "found"},
   ai : {"error", "empty", "text"}, synth : {"error", "ok"}]

\* The batches seekKnowledge is called with: up to MaxQueries queries.
Batches == UNION {[1..n -> QueryOutcomes] : n \in 0..MaxQueries}

performWebSearch(q) == [i \in 1..q.web.count |-> Record("Web Search", TRUE)]

\* searchWeb: the first three results, or [] when the search throws.
searchWeb(q) ==
  IF q.web.threw THEN <<>>
  ELSE SubSeq(performWebSearch(q), 1, IF q.web.count < 3 THEN q.web.count ELSE 3)

\* searchWikipedia: one record when the summary has an extract, else [].
searchWikipedia(q) ==
  IF q.wiki = "found" THEN <<Record("Wikipedia", TRUE)>> ELSE <<>>

\* A generateAIInsights whose catch returns a record that tells of the
\* failure.
generateAIInsightsErrorRecord(q) ==
  IF q.ai = "error" THEN Record("AI Analysis", TRUE)
  ELSE Record("AI Analysis", q.ai = "text")

\* generateAIInsights: a record whose content is the insights text, or null
\* when generateInsights rejects.
generateAIInsights(q) ==
  IF q.ai = "error" THEN Null ELSE Record("AI Analysis", q.ai = "text")

\* A filter that keeps every source.
validSourcesUnfiltered(sources) == sources

\* sources.filter((source) => source && source.content).
validSources(sources) ==
  SelectSeq(sources, LAMBDA src : src # Null /\ src.content)

\* calculateConfidence, in hundredths.
calculateConfidence(sources) ==
  CASE Len(sources) = 0 -> 10
    [] Len(sources) = 1 -> 60
    [] Len(sources) = 2 -> 80
    [] OTHER -> 95

\* synthesizeKnowledge: it throws when synthesizeInformation rejects
\* (extractRelatedTopics and extractMainTopic catch their own errors);
\* otherwise the item, of which the position of its query in the batch and
\* its confidence are kept.
synthesizeKnowledge(i, q, sources) ==
  [threw |-> q.synth = "error",
   item |-> [query |-> i, confidence |-> calculateConfidence(validSources(sources))]]

\* The body of the try block in seekKnowledge's loop, for the i-th query.
QueryBody(i, q) ==
  LET webResults == searchWeb(q)
      wikiResults == searchWikipedia(q)
      aiInsights == generateAIInsights(q)
  IN synthesizeKnowledge(i, q, webResults \o wikiResults \o <<aiInsights>>)

\* A loop that puts each new item in front (unshift for push).
AfterQueryUnshift(c, body) ==
  IF body.threw THEN [c EXCEPT !.next = @ + 1]
  ELSE [c EXCEPT !.knowledgeItems = <<body.item>> \o @, !.next = @ + 1]

\* A loop without try/catch: the error of a query ends seekKnowledge.
AfterQueryRethrow(c, body) ==
  IF body.threw THEN [c EXCEPT !.raised = TRUE, !.next = Len(c.queries) + 1]
  ELSE [c EXCEPT !.knowledgeItems = Append(@, body.item), !.next = @ + 1]

\* The end of one iteration: the item is pushed, or the catch logs the error
\* and the loop goes on.
AfterQuery(c, body) ==
  IF body.threw THEN [c EXCEPT !.next = @ + 1]
  ELSE [c EXCEPT !.knowledgeItems = Append(@, body.item), !.next = @ + 1]

InitSeek ==
  /\ call \in {[fn |-> "seekKnowledge", queries |-> b, next |-> 1,
                 knowledgeItems |-> <<>>, raised |-> FALSE, returned |-> FALSE] :
               b \in Batches}
  /\ agents = initializeAgents
  /\ exploring = [a \in AgentIds |-> [withItems |-> 0, empty |-> 0]]
  /\ tasks = <<>>
  /\ queue = <<>>
  /\ db = <<>>
  /\ attempts = [s \in AllSlots |-> FreeSlot]
  /\ events = <<>>
  /\ statusLog = <<>>
  /\ taskLog = <<>>
  /\ tickFailed = FALSE

\* One iteration of `for (const query of queries)`.
SeekQuery ==
  /\ call.fn = "seekKnowledge"
  /\ ~call.raised /\ ~call.returned
  /\ call.next <= Len(call.queries)
  /\ call' = AfterQuery(call, QueryBody(call.next, call.queries[call.next]))
  /\ UNCHANGED <<agents, exploring, tasks, queue, db, attempts, events, statusLog,
                 taskLog, tickFailed>>

\* return knowledgeItems.
SeekReturn ==
  /\ call.fn = "seekKnowledge"
  /\ ~call.raised /\ ~call.returned
  /\ call.next > Len(call.queries)
  /\ call' = [call EXCEPT !.returned = TRUE]
  /\ UNCHANGED <<agents, exploring, tasks, queue, db, attempts, events, statusLog,
                 taskLog, tickFailed>>

NextSeek == SeekQuery \/ SeekReturn

SpecSeek == InitSeek /\ [][NextSeek]_vars

\* ------------------------------------------------------- expandKnowledge
\* seekKnowledge as a function of its batch: the loop run to its end.
RECURSIVE SeekFrom(_)
SeekFrom(c) ==
  IF c.next > Len(c.queries) THEN c.knowledgeItems
  ELSE SeekFrom(AfterQuery(c, QueryBody(c.next, c.queries[c.next])))

seekKnowledge(queries) ==
  SeekFrom([fn |-> "seekKnowledge", queries |-> queries, next |-> 1,
            knowledgeItems |-> <<>>, raised |-> FALSE, returned |-> FALSE])

\* What the external calls made for a follow-up query come back with: the
\* web search returns its one record and the insights are generated; the
\* summary is found or not, and the synthesis succeeds or not.
FollowUpOutcomes ==
  {q \in QueryOutcomes :
     /\ q.web = [threw |-> FALSE, count |-> 1]
     /\ q.wiki \in {"error", "found"}
     /\ q.ai = "text"}

\* An item of baseKnowledge: each of its relatedTopics stands as the
\* outcome of the follow-up query built from it.
BaseItems ==
  {[relatedTopics |-> ts] : ts \in UNION {[1..m -> FollowUpOutcomes] : m \in 0..MaxRelated}}

BaseKnowledge == UNION {[1..n -> BaseItems] : n \in 0..MaxItems}

\* A loop that also goes through the items it obtained.
IteratedReexpanding(base, additionalKnowledge) ==
  base \o [k \in 1..Len(additionalKnowledge) |-> [relatedTopics |-> <<>>]]

\* What `for (const item of baseKnowledge)` goes through once an iteration
\* has obtained additionalKnowledge: baseKnowledge, as it was.
Iterated(base, additionalKnowledge) == base

InitExpand ==
  /\ call \in {[fn |-> "expandKnowledge", baseKnowledge |-> b, iterated |-> b,
                 next |-> 1, expandedKnowledge |-> <<>>, seekCalls |-> <<>>,
                 returned |-> FALSE] : b \in BaseKnowledge}
  /\ agents = initializeAgents
  /\ exploring = [a \in AgentIds |-> [withItems |-> 0, empty |-> 0]]
  /\ tasks = <<>>
  /\ queue = <<>>
  /\ db = <<>>
  /\ attempts = [s \in AllSlots |-> FreeSlot]
  /\ events = <<>>
  /\ statusLog = <<>>
  /\ taskLog = <<>>
  /\ tickFailed = FALSE

\* One iteration of expandKnowledge's loop: a follow-up query per related
\* topic of the item, one seekKnowledge call on them (seekCalls keeps the
\* number of queries of each call), its items pushed.
ExpandItem ==
  /\ call.fn = "expandKnowledge"
  /\ ~call.returned
  /\ call.next <= Len(call.iterated)
  /\ LET item == call.iterated[call.next]
         followUpQueries == [k \in 1..Len(item.relatedTopics) |-> item.relatedTopics[k]]
         additionalKnowledge == seekKnowledge(followUpQueries)
     IN call' = [call EXCEPT
          !.expandedKnowledge = @ \o additionalKnowledge,
          !.seekCalls = Append(@, Len(followUpQueries)),
          !.iterated = Iterated(@, additionalKnowledge),
          !.next = @ + 1]
  /\ UNCHANGED <<agents, exploring, tasks, queue, db, attempts, events, statusLog,
                 taskLog, tickFailed>>

\* return expandedKnowledge.
ExpandReturn ==
  /\ call.fn = "expandKnowledge"
  /\ ~call.returned
  /\ call.next > Len(call.iterated)
  /\ call' = [call EXCEPT !.returned = TRUE]
  /\ UNCHANGED <<agents, exploring, tasks, queue, db, attempts, events, statusLog,
                 taskLog, tickFailed>>

NextExpand == ExpandItem \/ ExpandReturn

SpecExpand == InitExpand /\ [][NextExpand]_vars

\* ------------------------------------------------ getAgentStatus on its own
AgentName(a) ==
  CASE a = "agent-aria" -> "Aria"
    [] a = "agent-zephyr" -> "Zephyr"
    [] a = "agent-sage" -> "Sage"
    [] a = "agent-nova" -> "Nova"

\* getAgentStatus: one entry per agent, in Map insertion order.
getAgentStatus(pool) ==
  [i \in 1..Len(AgentOrder) |->
     LET a == AgentOrder[i]
     IN [id |-> a, name |-> AgentName(a), status |-> pool[a].status,
         specialization |-> specialization(a),
         knowledgeBaseSize |-> Cardinality(pool[a].knowledgeBase),
         curiosityLevel |-> curiosityLevel(a)]]

\* A getAgentStatus that resets the agents it reports on.
PoolAfterStatusReset(pool) ==
  [a \in AgentIds |-> [pool[a] EXCEPT !.status = "idle", !.currentTask = NoTask]]

\* The pool after getAgentStatus: as before, the method only reads.
PoolAfterStatus(pool) == pool

\* getAgentStatus is called on a pool with any statuses and any knowledge
\* gathered.
InitStatus ==
  /\ agents \in {[a \in AgentIds |-> [PoolOf(st)[a] EXCEPT !.knowledgeBase = kb[a]]] :
                  st \in [AgentIds -> {"idle", "busy", "learning"}],
                  kb \in [AgentIds -> SUBSET Topics]}
  /\ call = [fn |-> "getAgentStatus", pool |-> agents, snapshots |-> <<>>]
  /\ exploring = [a \in AgentIds |-> [withItems |-> 0, empty |-> 0]]
  /\ tasks = <<>>
  /\ queue = <<>>
  /\ db = <<>>
  /\ attempts = [s \in AllSlots |-> FreeSlot]
  /\ events = <<>>
  /\ statusLog = <<>>
  /\ taskLog = <<>>
  /\ tickFailed = FALSE

\* getAgentStatus() is called and returns its snapshot.
GetAgentStatus ==
  /\ call.fn = "getAgentStatus"
  /\ Len(call.snapshots) < MaxStatusCalls
  /\ call' = [call EXCEPT !.snapshots = Append(@, getAgentStatus(agents))]
  /\ agents' = PoolAfterStatus(agents)
  /\ UNCHANGED <<exploring, tasks, queue, db, attempts, events, statusLog,
                 taskLog, tickFailed>>

NextStatus == GetAgentStatus

SpecStatus == InitStatus /\ [][NextStatus]_vars

\* ------------------------------------------- one attempt on a given pool
\* The callback that runs the attempt.
AttemptSlots == {1}

\* One task has been submitted and waits on the queue; the pool has any
\* statuses (those of the agents other attempts have marked or set
\* learning), kept in call.pool as they are when the attempt starts.
InitAttempt ==
  /\ agents \in {PoolOf(st) : st \in [AgentIds -> {"idle", "busy", "learning"}]}
  /\ call = [fn |-> "processTask", pool |-> agents]
  /\ tasks \in {<<[userId |-> r.userId, prompt |-> r.prompt, status |-> "pending",
                    submit |-> "returned"]>> : r \in Requests}
  /\ queue = <<1>>
  /\ db = <<[status |-> "pending", result |-> FALSE]>>
  /\ statusLog = <<(<<"pending">>)>>
  /\ taskLog = <<[delivered |-> 0, agent |-> NoAgent, outcome |-> "none",
                  afterTickFailed |-> FALSE, thrown |-> {}]>>
  /\ exploring = [a \in AgentIds |-> [withItems |-> 0, empty |-> 0]]
  /\ attempts = [s \in AllSlots |-> FreeSlot]
  /\ events = <<>>
  /\ tickFailed = FALSE

NextAttempt ==
  \/ \E s \in AttemptSlots : Tick(s)
  \/ \E s \in AttemptSlots : GetNextTask(s)
  \/ \E s \in AttemptSlots : GetNextTaskEmpty(s)
  \/ \E s \in AttemptSlots : NoAgentAvailable(s)
  \/ \E s \in AttemptSlots : MarkBusy(s)
  \/ \E s \in AttemptSlots : BuildContext(s)
  \/ \E s \in AttemptSlots : GenerateKnowledgeQueries(s)
  \/ \E s \in AttemptSlots, keys \in SUBSET Topics, curious \in BOOLEAN :
       SeekKnowledge(s, keys, curious)
  \/ \E s \in AttemptSlots : TaskProcessor(s)
  \/ \E s \in AttemptSlots : StoreTaskResult(s)
  \/ \E s \in AttemptSlots : UpdateUserContext(s)
  \/ \E s \in AttemptSlots, error \in Rejections : StepFails(s, error)
  \/ \E a \in AgentIds, hadItems \in BOOLEAN, keys \in SUBSET Topics, curious \in BOOLEAN :
       ExplorationDone(a, hadItems, keys, curious)

SpecAttempt == InitAttempt /\ [][NextAttempt]_vars

\* ------------------------------------------------ WebSocket connections
\* The sockets connected to the server.
SocketIds == {"s1", "s2"}

\* The user a socket authenticated as when it connected (io.use(authMiddleware)).
Authenticated(sock) == IF sock = "s1" THEN "u1" ELSE "u2"

\* The userIds a client may send with join-room.
UserIds == {r.userId : r \in Requests}

\* The socket has not disconnected.
Connected == -1

\* The room join-room names: `user-${userId}`.
JoinedRoom(userId) == <<"user-", userId>>

\* The sockets are connected and in no user room; one task has been
\* submitted and waits on the queue.
InitRooms ==
  /\ call = [fn |-> "connection",
             rooms |-> [sock \in SocketIds |-> {}],
             gone |-> [sock \in SocketIds |-> Connected]]
  /\ agents = initializeAgents
  /\ tasks \in {<<[userId |-> r.userId, prompt |-> r.prompt, status |-> "pending",
                    submit |-> "returned"]>> : r \in Requests}
  /\ queue = <<1>>
  /\ db = <<[status |-> "pending", result |-> FALSE]>>
  /\ statusLog = <<(<<"pending">>)>>
  /\ taskLog = <<[delivered |-> 0, agent |-> NoAgent, outcome |-> "none",
                  afterTickFailed |-> FALSE, thrown |-> {}]>>
  /\ exploring = [a \in AgentIds |-> [withItems |-> 0, empty |-> 0]]
  /\ attempts = [s \in AllSlots |-> FreeSlot]
  /\ events = <<>>
  /\ tickFailed = FALSE

\* socket.on("join-room", (userId) => socket.join(`user-${userId}`)): the
\* socket is in the room from now on (since: the events published so far,
\* which it has missed); joining a room it is in changes nothing.
JoinRoom(sock, userId) ==
  /\ call.fn = "connection"
  /\ call.gone[sock] = Connected
  /\ call' = IF \E r \in call.rooms[sock] : r.room = JoinedRoom(userId)
               THEN call
               ELSE [call EXCEPT !.rooms[sock] =
                       @ \cup {[room |-> JoinedRoom(userId), since |-> Len(events)]}]
  /\ UNCHANGED <<agents, exploring, tasks, queue, db, attempts, events, statusLog,
                 taskLog, tickFailed>>

\* socket.on("disconnect", ...): the socket receives nothing published later.
Disconnect(sock) ==
  /\ call.fn = "connection"
  /\ call.gone[sock] = Connected
  /\ call' = [call EXCEPT !.gone[sock] = Len(events)]
  /\ UNCHANGED <<agents, exploring, tasks, queue, db, attempts, events, statusLog,
                 taskLog, tickFailed>>

\* The events io.to(room).emit delivered to the socket: those published to
\* a room while the socket was in it.
Received(sock) ==
  {i \in DOMAIN events :
     /\ \E r \in call.rooms[sock] : r.room = events[i].room /\ i > r.since
     /\ call.gone[sock] = Connected \/ i <= call.gone[sock]}

NextRooms ==
  \/ \E sock \in SocketIds, userId \in UserIds : JoinRoom(sock, userId)
  \/ \E sock \in SocketIds : Disconnect(sock)
  \/ \E s \in AttemptSlots : Tick(s)
  \/ \E s \in AttemptSlots : GetNextTask(s)
  \/ \E s \in AttemptSlots : GetNextTaskEmpty(s)
  \/ \E s \in AttemptSlots : MarkBusy(s)
  \/ \E s \in AttemptSlots : BuildContext(s)
  \/ \E s \in AttemptSlots : GenerateKnowledgeQueries(s)
  \/ \E s \in AttemptSlots, keys \in SUBSET Topics, curious \in BOOLEAN :
       SeekKnowledge(s, keys, curious)
  \/ \E s \in AttemptSlots : TaskProcessor(s)
  \/ \E s \in AttemptSlots : StoreTaskResult(s)
  \/ \E s \in AttemptSlots : UpdateUserContext(s)
  \/ \E s \in AttemptSlots, error \in Rejections : StepFails(s, error)
  \/ \E a \in AgentIds, hadItems \in BOOLEAN, keys \in SUBSET Topics, curious \in BOOLEAN :
       ExplorationDone(a, hadItems, keys, curious)

SpecRooms == InitRooms /\ [][NextRooms]_vars

\* ------------------------------------------------------------------ claims
InFlight == {s \in AllSlots : attempts[s].pc # "free"}

\* The attempts that have chosen an agent and not ended.
Holding(a) == {s \in InFlight : attempts[s].agent = a}

\* The events of one name published for a task.
Published(name, t) ==
  {i \in DOMAIN events : events[i].name = name /\ events[i].taskId = t}

\* C1: whenever a processing attempt that selected (and marked) an agent ends,
\* on the success or on the failure path, that agent is idle and its
\* currentTask is cleared.
C1_AgentReleasedWhenAttemptEnds ==
  [][\A s \in AllSlots :
       (/\ attempts[s].pc \notin {"free", "getNextTask", "selectAgent"}
        /\ attempts'[s].pc = "free")
       => (/\ agents'[attempts[s].agent].status = "idle"
           /\ agents'[attempts[s].agent].currentTask = NoTask)]_vars

\* C2: no agent is chosen by a second attempt while an attempt that chose it
\* has not ended.
C2_NoAgentSelectedTwice ==
  \A a \in AgentIds : Cardinality(Holding(a)) <= 1

\* C3: a busy agent has a currentTask and an idle agent has none.
C3_CurrentTaskIffBusy ==
  \A a \in AgentIds :
    /\ agents[a].status = "busy" => agents[a].currentTask # NoTask
    /\ agents[a].status = "idle" => agents[a].currentTask = NoTask

\* C4: no two distinct busy agents have the same currentTask.
C4_NoDoubleAssignment ==
  \A a, b \in AgentIds :
    (a # b /\ agents[a].status = "busy" /\ agents[b].status = "busy")
      => agents[a].currentTask # agents[b].currentTask

\* Two agents are busy at once, each with a task.
C4_Witness ==
  \E a, b \in AgentIds :
    /\ a # b
    /\ agents[a].status = "busy" /\ agents[b].status = "busy"
    /\ agents[a].currentTask # NoTask /\ agents[b].currentTask # NoTask

StatusRank(st) ==
  CASE st = "pending" -> 0
    [] st = "processing" -> 1
    [] st = "completed" -> 2
    [] st = "failed" -> 2

\* C5: the status values written for a task never go back along
\* pending -> processing -> {completed, failed}, a completed or failed status
\* never changes, and the row holds the last value written.
C5_StatusMonotonic ==
  \A t \in TaskIds :
    /\ \A i, j \in DOMAIN statusLog[t] :
         i < j => /\ StatusRank(statusLog[t][i]) <= StatusRank(statusLog[t][j])
                  /\ statusLog[t][i] \in {"completed", "failed"}
                       => statusLog[t][j] = statusLog[t][i]
    /\ db[t].status = IF statusLog[t] = <<>> THEN "absent"
                       ELSE statusLog[t][Len(statusLog[t])]

\* A task's row was written completed, and its attempt then failed in
\* updateUserContext.
C5_Witness ==
  \E t \in TaskIds :
    /\ statusLog[t] = <<"pending", "completed">>
    /\ taskLog[t].outcome = "failed"

\* C6: when a step after agent selection fails, the task's row has status
\* failed.
C6_FailedTaskMarkedFailed ==
  \A t \in TaskIds :
    (taskLog[t].outcome = "failed" /\ tasks[t].submit = "returned")
      => db[t].status = "failed"

\* C7: a task processed successfully had pending, then processing, then
\* completed written to its row.
C7_ProcessingPersisted ==
  \A t \in TaskIds :
    (taskLog[t].outcome = "completed" /\ db[t].status = "completed")
      => statusLog[t] = <<"pending", "processing", "completed">>

\* C8: no event is published for a task dequeued when no agent was idle.
C8_NoEventWhenNoAgent ==
  \A t \in TaskIds :
    taskLog[t].outcome = "noagent"
      => Published("task-progress", t) \cup Published("task-error", t) = {}

\* C9: a task dequeued when no agent was idle is still retrievable from the
\* queue.
C9_TaskStaysRetrievable ==
  \A t \in TaskIds :
    taskLog[t].outcome = "noagent" => \E i \in DOMAIN queue : queue[i] = t

\* C10: a task whose processing succeeded has exactly one task-progress event,
\* with status completed, and no task-error event.
C10_OneCompletionEvent ==
  \A t \in TaskIds :
    taskLog[t].outcome = "completed"
      => /\ Cardinality(Published("task-progress", t)) = 1
         /\ \A i \in Published("task-progress", t) : events[i].status = "completed"
         /\ Published("task-error", t) = {}

\* Two tasks were processed successfully.
C10_Witness ==
  /\ Len(tasks) >= 2
  /\ \A t \in TaskIds : taskLog[t].outcome = "completed"

\* C11 as stated: a task whose attempt failed in a step after agent
\* selection has exactly one task-error event, carrying the task's id and
\* the message of what the step threw, and no task-progress event.
C11_OneErrorEvent ==
  \A t \in TaskIds :
    taskLog[t].outcome = "failed"
      => /\ Cardinality(Published("task-error", t)) = 1
         /\ \A i \in Published("task-error", t) :
              \A e \in taskLog[t].thrown : events[i].error = e.message
         /\ Published("task-progress", t) = {}

\* C11, amended: a task whose attempt failed in a step after agent
\* selection has exactly one task-error event and no task-progress event;
\* the event carries the task's id and, when the step threw an Error, that
\* Error's message, and the text "Unknown error" when it threw any other
\* value.
C11_OneErrorEventMessageOfErrors ==
  \A t \in TaskIds :
    taskLog[t].outcome = "failed"
      => /\ Cardinality(Published("task-error", t)) = 1
         /\ Cardinality(taskLog[t].thrown) = 1
         /\ \A i \in Published("task-error", t) :
              \A e \in taskLog[t].thrown :
                /\ e.isError => events[i].error = e.message
                /\ ~e.isError => events[i].error = "Unknown error"
         /\ Published("task-progress", t) = {}

\* One task's attempt failed on an Error after its agent was marked busy,
\* another task's attempt failed on a value that is not an Error.
C11_Witness ==
  \E t, u \in TaskIds :
    /\ taskLog[t].outcome = "failed" /\ taskLog[t].agent # NoAgent
    /\ \E e \in taskLog[t].thrown : e.isError
    /\ taskLog[u].outcome = "failed" /\ taskLog[u].agent # NoAgent
    /\ \E e \in taskLog[u].thrown : ~e.isError

\* C12: once submitTask has returned a task's id, the task has been put on
\* the queue and the tasks table holds its row, with status pending unless
\* the processing loop has since written completed over pending.
C12_SubmittedTaskQueuedAndPending ==
  \A t \in TaskIds :
    tasks[t].submit = "returned"
      => /\ (\E i \in DOMAIN queue : queue[i] = t) \/ taskLog[t].delivered > 0
         /\ \/ db[t].status = "pending"
            \/ /\ db[t].status = "completed"
               /\ statusLog[t] = <<"pending", "completed">>
               /\ taskLog[t].delivered > 0

\* submitTask has returned while its task still waits on the queue, no
\* callback having taken it.
C12_Witness ==
  \E t \in TaskIds :
    /\ tasks[t].submit = "returned"
    /\ \E i \in DOMAIN queue : queue[i] = t
    /\ taskLog[t].delivered = 0
    /\ db[t].status = "pending"

\* C13: no task is handed to processTask twice: it is dequeued at most once,
\* is on the queue at most once and not at all once dequeued, and is held by
\* at most one attempt; a task whose attempt ended is never processed again.
C13_DeliveredAtMostOnce ==
  \A t \in TaskIds :
    /\ taskLog[t].delivered <= 1
    /\ Cardinality({i \in DOMAIN queue : queue[i] = t}) + taskLog[t].delivered <= 1
    /\ Cardinality({s \in InFlight : attempts[s].task = t}) <= taskLog[t].delivered
    /\ taskLog[t].outcome # "none" => \A s \in InFlight : attempts[s].task # t

\* A task's attempt failed after its agent was selected, and a later tick
\* found the queue empty.
C13_Witness ==
  \E t \in TaskIds :
    /\ taskLog[t].outcome = "failed"
    /\ taskLog[t].agent # NoAgent
    /\ queue = <<>>
    /\ \E s \in Slots : attempts[s].pc = "getNextTask"

\* The place of an agent in pool order.
Position(a) == CHOOSE i \in 1..Len(AgentOrder) : AgentOrder[i] = a

\* C14: selectAgent returns no agent exactly when no agent is idle; otherwise
\* it returns an idle agent whose score no idle agent exceeds and which comes
\* first in pool order among the idle agents of that score; busy and
\* learning agents are neither scored nor returned.
C14_SelectsBestIdleAgent ==
  (call.fn = "selectAgent" /\ call.done) =>
    LET idle == {a \in AgentIds : agents[a].status = "idle"}
        scored == {call.scores[i].agent : i \in DOMAIN call.scores}
        score(a) == calculateAgentScore(a, call.prompt)
    IN /\ scored = idle
       /\ call.result = NoAgent <=> idle = {}
       /\ call.result # NoAgent =>
            /\ call.result \in idle
            /\ \A b \in idle :
                 /\ score(b) <= score(call.result)
                 /\ score(b) = score(call.result) => Position(call.result) <= Position(b)

\* Aria is not idle, Zephyr and Nova are, and the prompt matches no tag:
\* Nova, whose score 0.42500000000000004 exceeds Zephyr's
\* 0.42499999999999993, is returned.
C14_Witness ==
  /\ call.fn = "selectAgent" /\ call.done
  /\ call.prompt = Str_hello
  /\ agents["agent-aria"].status = "busy"
  /\ agents["agent-zephyr"].status = "idle"
  /\ agents["agent-sage"].status = "learning"
  /\ call.result = "agent-nova"

\* The whitespace-delimited tokens of a lower-cased prompt: its pieces
\* between spaces that are not empty.
Tokens(prompt) == SelectSeq(split(toLowerCase(prompt)), LAMBDA w : w # <<>>)

\* The number of the agent's tags that contain at least one token.
TagsContainingAToken(a, prompt) ==
  Cardinality({i \in 1..Len(specialization(a)) :
    \E k \in 1..Len(Tokens(prompt)) : includes(specialization(a)[i], Tokens(prompt)[k])})

\* C15: the score calculateAgentScore gives an agent for a prompt is (up to
\* the rounding of the doubles) 0.3 * curiosityLevel + 0.2 * learningRate +
\* 0.5 * n, n being the number of the agent's tags that contain at least one
\* whitespace-delimited lower-case token of the prompt.
C15_ScoreCountsTokenMatches ==
  (call.fn = "selectAgent" /\ call.done) =>
    \A i \in DOMAIN call.scores :
      LET a == call.scores[i].agent
      IN call.scores[i].score =
           100 * (curiosityLevel(a) * 30 + learningRate(a) * 20
                  + 5000 * TagsContainingAToken(a, call.prompt)) + FloatResidue(a)

\* The source records gathered for a query that are not empty: the web
\* results kept, the encyclopedia summary, the generated insights.
NonEmptyRecords(q) ==
  (IF q.web.threw THEN 0 ELSE IF q.web.count > 3 THEN 3 ELSE q.web.count)
  + (IF q.wiki = "found" THEN 1 ELSE 0)
  + (IF q.ai = "text" THEN 1 ELSE 0)

\* C16: the confidence of every item seekKnowledge produces is 0.1, 0.6, 0.8
\* or 0.95 as the number of non-empty source records gathered for its query
\* is 0, 1, 2, or 3 and more; an item with more such records never has the
\* lower confidence.
C16_ConfidenceBySourceCount ==
  call.fn = "seekKnowledge" =>
    /\ \A k \in DOMAIN call.knowledgeItems :
         LET n == NonEmptyRecords(call.queries[call.knowledgeItems[k].query])
         IN call.knowledgeItems[k].confidence =
              (CASE n = 0 -> 10 [] n = 1 -> 60 [] n = 2 -> 80 [] OTHER -> 95)
    /\ \A k, l \in DOMAIN call.knowledgeItems :
         NonEmptyRecords(call.queries[call.knowledgeItems[k].query])
           <= NonEmptyRecords(call.queries[call.knowledgeItems[l].query])
         => call.knowledgeItems[k].confidence <= call.knowledgeItems[l].confidence

\* A batch came back with an item made from no record (all three lookups
\* failed) and an item made from five (three web results kept of four, the
\* summary and the insights).
C16_Witness ==
  /\ call.fn = "seekKnowledge" /\ call.returned
  /\ Len(call.knowledgeItems) = 2
  /\ call.queries[1].web.threw /\ call.queries[1].wiki = "error" /\ call.queries[1].ai = "error"
  /\ call.knowledgeItems[1].confidence = 10
  /\ call.queries[2].web.count = MaxWebResults /\ call.queries[2].wiki = "found"
  /\ call.queries[2].ai = "text"
  /\ call.knowledgeItems[2].confidence = 95

\* C17: seekKnowledge raises nothing to its caller, and when it has returned
\* every query whose synthesis did not fail has its item, whatever failed
\* for the other queries of the batch.
C17_SeekNeverRaises ==
  call.fn = "seekKnowledge" =>
    /\ ~call.raised
    /\ call.returned =>
         \A i \in DOMAIN call.queries :
           call.queries[i].synth = "ok"
             => \E k \in DOMAIN call.knowledgeItems : call.knowledgeItems[k].query = i

\* The three lookups and the synthesis failed for the first query of a
\* batch, and seekKnowledge returned the item of the second.
C17_Witness ==
  /\ call.fn = "seekKnowledge" /\ call.returned
  /\ Len(call.queries) = 2
  /\ call.queries[1].web.threw /\ call.queries[1].wiki = "error"
  /\ call.queries[1].ai = "error" /\ call.queries[1].synth = "error"
  /\ Len(call.knowledgeItems) = 1
  /\ call.knowledgeItems[1].query = 2

\* C18: an error raised inside a tick ends that tick only.  In the step in
\* which a callback's getNextTask rejects, and in every step of a later
\* callback out of getNextTask, the callback either returns normally or
\* goes on to processTask with the task it dequeued; no rejection is left
\* unhandled to end the process, no other callback is disturbed, and the
\* queue loses nothing but a dequeued task.
C18_LoopSurvivesErrors ==
  [][\A s \in AllSlots :
       (attempts[s].pc = "getNextTask" /\ tickFailed' /\ attempts'[s] # attempts[s])
       => (/\ attempts'[s].pc \in {"free", "selectAgent"}
           /\ ProcessAlive'
           /\ \A r \in AllSlots \ {s} : attempts'[r] = attempts[r]
           /\ queue' = queue \/ attempts'[s].pc = "selectAgent")]_vars

\* A task was dequeued by a tick later than one whose getNextTask rejected,
\* and was processed successfully.
C18_Witness ==
  \E t \in TaskIds :
    /\ taskLog[t].afterTickFailed
    /\ taskLog[t].outcome = "completed"

\* C19: every task-progress and task-error event is published to one room,
\* that of the user who owns the task: "user-" followed by the userId the
\* task was submitted with.
C19_EventsToOwnerOnly ==
  \A i \in DOMAIN events :
    /\ events[i].name \in {"task-progress", "task-error"}
    /\ events[i].room = <<"user-", tasks[events[i].taskId].userId>>

\* A task of one user completed and a task of another user failed, each
\* with its event published.
C19_Witness ==
  \E i, j \in DOMAIN events :
    /\ events[i].name = "task-progress" /\ events[j].name = "task-error"
    /\ tasks[events[i].taskId].userId # tasks[events[j].taskId].userId

\* C20: getAgentStatus leaves the pool as it was, and consecutive calls
\* return the same snapshot: one entry per agent of the pool, with the
\* agent's status and the size of its knowledgeBase.
C20_StatusReadOnly ==
  call.fn = "getAgentStatus" =>
    /\ agents = call.pool
    /\ \A k \in DOMAIN call.snapshots :
         /\ call.snapshots[k] = call.snapshots[1]
         /\ Len(call.snapshots[k]) = Cardinality(AgentIds)
         /\ \A a \in AgentIds :
              \E i \in DOMAIN call.snapshots[k] :
                /\ call.snapshots[k][i].id = a
                /\ call.snapshots[k][i].status = call.pool[a].status
                /\ call.snapshots[k][i].knowledgeBaseSize
                     = Cardinality(call.pool[a].knowledgeBase)

\* Two calls in a row on a pool with a busy agent, a learning agent and an
\* agent that has gathered knowledge.
C20_Witness ==
  /\ call.fn = "getAgentStatus"
  /\ Len(call.snapshots) = 2
  /\ \E a, b, c \in AgentIds :
       /\ agents[a].status = "busy" /\ agents[b].status = "learning"
       /\ agents[c].knowledgeBase # {}

\* C21: the pool holds exactly the four agents of the configuration, each
\* with the id, specialization, curiosityLevel and learningRate it was
\* created with, and until a task is submitted each is idle and without
\* currentTask, as created.
C21_PoolFixed ==
  /\ DOMAIN agents = {"agent-aria", "agent-zephyr", "agent-sage", "agent-nova"}
  /\ \A a \in DOMAIN agents :
       /\ agents[a].id = a
       /\ agents[a].specialization = specialization(a)
       /\ agents[a].curiosityLevel = curiosityLevel(a)
       /\ agents[a].learningRate = learningRate(a)
       /\ tasks = <<>> => agents[a].status = "idle" /\ agents[a].currentTask = NoTask

\* Two tasks were processed to their end, one agent has gathered knowledge
\* and an exploration is still pending.
C21_Witness ==
  /\ Len(tasks) >= 2
  /\ \A t \in TaskIds : taskLog[t].outcome # "none"
  /\ \E a \in AgentIds : agents[a].knowledgeBase # {}
  /\ \E a \in AgentIds : PendingExplorations(a) > 0

\* C22: an exploration started by an attempt is over before the attempt's
\* taskProcessor step begins: no attempt at taskProcessor or beyond has an
\* exploration of its agent pending, and no exploration is pending for an
\* agent that no attempt holds.
C22_ExplorationOverBeforeProcessing ==
  /\ \A s \in InFlight :
       attempts[s].pc \in {"taskProcessor", "storeTaskResult", "updateUserContext"}
         => PendingExplorations(attempts[s].agent) = 0
  /\ \A a \in AgentIds : Holding(a) = {} => PendingExplorations(a) = 0

\* C23: merging the knowledge an exploration retrieved starts no further
\* exploration: every step in which a pending exploration of an agent
\* resumes leaves that agent with fewer explorations pending.
C23_OneExplorationRound ==
  [][\A a \in AgentIds :
       (attempts' = attempts /\ exploring'[a] # exploring[a])
       => exploring'[a].withItems + exploring'[a].empty < PendingExplorations(a)]_vars

\* C24: on the success path the result is stored as completed before
\* task-progress is published, and the agent is released only after it: a
\* task with a task-progress event has completed as the last status written
\* to its row, and a task whose attempt ran to its end has its event.
C24_StoredThenPublishedThenReleased ==
  \A t \in TaskIds :
    /\ Published("task-progress", t) # {}
         => /\ statusLog[t] # <<>>
            /\ statusLog[t][Len(statusLog[t])] = "completed"
    /\ taskLog[t].outcome = "completed" => Published("task-progress", t) # {}

\* C28: no task has both a task-error event and a row with status
\* completed.
C28_NoErrorForCompletedTask ==
  \A t \in TaskIds :
    ~(Published("task-error", t) # {} /\ db[t].status = "completed")

\* C29: a task for which task-progress with status completed was published
\* has a row with status completed that holds the result.
C29_CompletedEventMeansPersisted ==
  \A t \in TaskIds :
    (\E i \in Published("task-progress", t) : events[i].status = "completed")
      => db[t].status = "completed" /\ db[t].result

\* C30: a task whose submitTask failed (no id was returned) is not on the
\* queue, has no row and has not been taken by the processing loop.
C30_SubmitAllOrNothing ==
  \A t \in TaskIds :
    tasks[t].submit = "failed"
      => /\ \A i \in DOMAIN queue : queue[i] # t
         /\ db[t].status = "absent"
         /\ taskLog[t].delivered = 0

\* C25: the items seekKnowledge has gathered are those of the queries
\* processed so far whose synthesis did not fail, one each, in the order of
\* the queries, each carrying its query; on return that is every such query
\* of the batch.
C25_OneItemPerQueryInOrder ==
  call.fn = "seekKnowledge" =>
    LET items == call.knowledgeItems
        processed == IF call.returned THEN Len(call.queries) ELSE call.next - 1
        succeeded == {i \in 1..processed : call.queries[i].synth = "ok"}
    IN /\ \A k, l \in DOMAIN items : k < l => items[k].query < items[l].query
       /\ {items[k].query : k \in DOMAIN items} = succeeded
       /\ Len(items) = Cardinality(succeeded)
       /\ Len(items) <= Len(call.queries)

\* Of two queries both produced their item, and of two queries the first
\* failed and the second produced its item.
C25_Witness ==
  /\ call.fn = "seekKnowledge" /\ call.returned
  /\ Len(call.queries) = MaxQueries
  /\ call.queries[1].synth = "ok" /\ call.queries[2].synth = "ok"
  /\ Len(call.knowledgeItems) = 2
  /\ call.knowledgeItems[1].query = 1 /\ call.knowledgeItems[2].query = 2

\* The lookups of a query that failed: the web search threw, the summary
\* request was rejected, generateInsights was rejected.
FailedSources(q) ==
  (IF q.web.threw THEN {"web"} ELSE {})
  \cup (IF q.wiki = "error" THEN {"wiki"} ELSE {})
  \cup (IF q.ai = "error" THEN {"ai"} ELSE {})

\* The outcomes that differ from q in that one lookup which failed for q
\* did not fail.
WithSourcePresent(q) ==
  {r \in QueryOutcomes :
     \E src \in FailedSources(q) :
       /\ FailedSources(r) = FailedSources(q) \ {src}
       /\ src # "web" => r.web = q.web
       /\ src # "wiki" => r.wiki = q.wiki
       /\ src # "ai" => r.ai = q.ai
       /\ r.synth = q.synth}

\* C26: a processed query for which a lookup failed and the synthesis did
\* not has its item; the item's confidence is the one of the number of
\* non-empty records the other lookups returned, and is not higher than it
\* would be had the failed lookup answered.
C26_FailedSourceLowersConfidence ==
  call.fn = "seekKnowledge" =>
    \A i \in 1..(call.next - 1) :
      (FailedSources(call.queries[i]) # {} /\ call.queries[i].synth = "ok")
      => \E k \in DOMAIN call.knowledgeItems :
           /\ call.knowledgeItems[k].query = i
           /\ call.knowledgeItems[k].confidence
                = (CASE NonEmptyRecords(call.queries[i]) = 0 -> 10
                     [] NonEmptyRecords(call.queries[i]) = 1 -> 60
                     [] NonEmptyRecords(call.queries[i]) = 2 -> 80
                     [] OTHER -> 95)
           /\ \A r \in WithSourcePresent(call.queries[i]) :
                call.knowledgeItems[k].confidence <= QueryBody(i, r).item.confidence

\* generateInsights was rejected for a query whose web search returned one
\* record and whose summary was found: the item has confidence 0.8, where
\* 0.95 was within reach.
C26_Witness ==
  /\ call.fn = "seekKnowledge" /\ call.returned
  /\ Len(call.queries) >= 1
  /\ call.queries[1].web = [threw |-> FALSE, count |-> 1]
  /\ call.queries[1].wiki = "found" /\ call.queries[1].ai = "error"
  /\ Len(call.knowledgeItems) >= 1
  /\ call.knowledgeItems[1].query = 1 /\ call.knowledgeItems[1].confidence = 80

RECURSIVE SumSeq(_)
SumSeq(ns) == IF ns = <<>> THEN 0 ELSE Head(ns) + SumSeq(Tail(ns))

\* C27: expandKnowledge goes once through the items it was given and
\* through no other: after k iterations it has called seekKnowledge k
\* times, the i-th time with one query per related topic of the i-th item,
\* and holds at most as many items as queries were made; it returns after
\* as many iterations as baseKnowledge has items.
C27_ExpandOncePerItem ==
  call.fn = "expandKnowledge" =>
    /\ call.iterated = call.baseKnowledge
    /\ call.next <= Len(call.baseKnowledge) + 1
    /\ Len(call.seekCalls) = call.next - 1
    /\ \A i \in DOMAIN call.seekCalls :
         call.seekCalls[i] = Len(call.baseKnowledge[i].relatedTopics)
    /\ Len(call.expandedKnowledge) <= SumSeq(call.seekCalls)
    /\ call.returned => call.next = Len(call.baseKnowledge) + 1

\* expandKnowledge has returned for two items, the first with two related
\* topics of which one follow-up query failed, the second with none.
C27_Witness ==
  /\ call.fn = "expandKnowledge" /\ call.returned
  /\ call.seekCalls = <<2, 0>>
  /\ Len(call.expandedKnowledge) = 1

\* C31: through an attempt and the explorations it starts, every agent
\* other than the one the attempt selected and marked keeps the status,
\* currentTask and knowledgeBase it had when the attempt started; an
\* attempt that found no idle agent leaves every agent so.
C31_OnlySelectedAgentChanges ==
  call.fn = "processTask" =>
    \A t \in TaskIds : \A b \in AgentIds :
      b # taskLog[t].agent
        => /\ agents[b].status = call.pool[b].status
           /\ agents[b].currentTask = call.pool[b].currentTask
           /\ agents[b].knowledgeBase = call.pool[b].knowledgeBase

\* The attempt ran to its end on a pool with a busy and a learning agent:
\* the agent it selected gathered knowledge, explored and is idle again.
C31_Witness ==
  /\ call.fn = "processTask"
  /\ \E t \in TaskIds :
       /\ taskLog[t].outcome = "completed"
       /\ taskLog[t].agent # NoAgent
       /\ agents[taskLog[t].agent].knowledgeBase # {}
       /\ agents[taskLog[t].agent].status = "idle"
  /\ \E b, c \in AgentIds : agents[b].status = "busy" /\ agents[c].status = "learning"

\* C32: a socket is only ever in the room of the user it authenticated
\* as, and the task-progress and task-error events it receives are all for
\* tasks of that user.
C32_SocketReceivesOwnEventsOnly ==
  call.fn = "connection" =>
    \A sock \in SocketIds :
      /\ \A r \in call.rooms[sock] : r.room = <<"user-", Authenticated(sock)>>
      /\ \A i \in Received(sock) :
           /\ events[i].name \in {"task-progress", "task-error"}
           /\ tasks[events[i].taskId].userId = Authenticated(sock)
====
